---- MODULE Spec2Model ----
(***************************************************************************)
(* TinyG2 switch.cpp: homing/limit switch registry, polarity correction,   *)
(* debounce lockout, edge detection and the feedhold/limit escalation.     *)
(*                                                                         *)
(* The registry sw.s[axis][position] is the function s over Slots.  The    *)
(* canonical-machine singleton cm and the millisecond tick counter are the *)
(* external state switch.cpp reads and writes; GetTickCount() reads the    *)
(* variable tick, which SysTick advances.  IndicatorLed is a write-only    *)
(* sink: the toggle() calls of an operation are counted.                   *)
(***************************************************************************)
EXTENDS Integers, Sequences, FiniteSets, TLC

(* ---------------------------------------------------------------- bounds *)
MaxTick == 4           \* SysTick stops advancing here (no wrap below it)
SW_LOCKOUT_TICKS == 2  \* the lockout quantum of switch.h, scaled to MaxTick
TickBits == 3          \* width of the tick counter, scaled to MaxTick

\* GetTickCount() and debounce_timeout are unsigned: sums are taken modulo
TickModulus == 2 ^ TickBits

(* ------------------------------------------------------------- constants *)
SW_PAIRS == 6                        \* AXIS_X .. AXIS_C
SW_POSITIONS == 2                    \* SW_MIN, SW_MAX
SW_MIN == 0
SW_MAX == 1

SW_TYPE_NORMALLY_OPEN == 0
SW_TYPE_NORMALLY_CLOSED == 1
SW_OPEN == 0
SW_CLOSED == 1

SW_NO_EDGE == "SW_NO_EDGE"
SW_LEADING == "SW_LEADING"
SW_TRAILING == "SW_TRAILING"

\* mode is a set of bit flags; the empty set is SW_MODE_DISABLED
SW_HOMING_BIT == "SW_HOMING_BIT"
SW_LIMIT_BIT == "SW_LIMIT_BIT"
SW_MODE_DISABLED == {}
SwModes == SUBSET {SW_HOMING_BIT, SW_LIMIT_BIT}

CYCLE_OFF == "CYCLE_OFF"
CYCLE_HOMING == "CYCLE_HOMING"
CycleStates == {CYCLE_OFF, CYCLE_HOMING}

\* values of the four function-pointer fields
NULL_FN == "NULL"
NO_ACTION == "_no_action"
DO_FEEDHOLD == "_do_feedhold"

Slots == (0 .. SW_PAIRS - 1) \X (0 .. SW_POSITIONS - 1)

\* mutant: the X maximum line reads the X minimum switch again
PollOrder_XMinTwice ==
  << <<0, SW_MIN>>, <<0, SW_MIN>>, <<1, SW_MIN>>, <<1, SW_MAX>>,
     <<2, SW_MIN>>, <<2, SW_MAX>>, <<3, SW_MIN>>, <<3, SW_MAX>>,
     <<4, SW_MIN>>, <<4, SW_MAX>>, <<5, SW_MIN>>, <<5, SW_MAX>> >>

\* the order of the twelve read_switch calls in poll_switches
PollOrder ==
  << <<0, SW_MIN>>, <<0, SW_MAX>>, <<1, SW_MIN>>, <<1, SW_MAX>>,
     <<2, SW_MIN>>, <<2, SW_MAX>>, <<3, SW_MIN>>, <<3, SW_MAX>>,
     <<4, SW_MIN>>, <<4, SW_MAX>>, <<5, SW_MIN>>, <<5, SW_MAX>> >>

VARIABLES sw_type, s, cm, tick, armed, hist, last

vars == <<sw_type, s, cm, tick, armed, hist, last>>

(* -------------------------------------------------------- static storage *)
\* switches_t sw is a zero-initialised global
ZeroSwitch ==
  [ type |-> 0, mode |-> SW_MODE_DISABLED, state |-> 0, edge |-> SW_NO_EDGE,
    debounce_ticks |-> 0, debounce_timeout |-> 0,
    when_open |-> NULL_FN, when_closed |-> NULL_FN,
    on_leading |-> NULL_FN, on_trailing |-> NULL_FN ]

(* ------------------------------------------------------------ callbacks *)
Xor(a, b) == (a + b) % 2              \* ^ on single-bit operands

HasBit(mode, bit) == bit \in mode     \* (mode & bit) != 0

\* mutant: while homing only a switch with the homing bit requests feedhold
_do_feedhold_HomingBit(r, env) ==
  LET toggled == [env EXCEPT !.toggles = env.toggles + 1] IN
  IF toggled.cm.cycle_state = CYCLE_HOMING
    THEN (IF HasBit(r.mode, SW_HOMING_BIT)
            THEN [toggled EXCEPT !.cm.request_feedhold = TRUE]
            ELSE toggled)
    ELSE IF HasBit(r.mode, SW_LIMIT_BIT)
      THEN [toggled EXCEPT !.cm.limit_flag = TRUE]
      ELSE toggled

\* mutant: the limit bit is tested before the cycle state
_do_feedhold_LimitFirst(r, env) ==
  LET toggled == [env EXCEPT !.toggles = env.toggles + 1] IN
  IF HasBit(r.mode, SW_LIMIT_BIT)
    THEN [toggled EXCEPT !.cm.limit_flag = TRUE]
    ELSE IF toggled.cm.cycle_state = CYCLE_HOMING
      THEN [toggled EXCEPT !.cm.request_feedhold = TRUE]
      ELSE toggled

\* mutant: each branch also withdraws the other request
_do_feedhold_Exclusive(r, env) ==
  LET toggled == [env EXCEPT !.toggles = env.toggles + 1] IN
  IF toggled.cm.cycle_state = CYCLE_HOMING
    THEN [toggled EXCEPT !.cm.request_feedhold = TRUE,
                         !.cm.limit_flag = FALSE]
    ELSE IF HasBit(r.mode, SW_LIMIT_BIT)
      THEN [toggled EXCEPT !.cm.limit_flag = TRUE,
                           !.cm.request_feedhold = FALSE]
      ELSE toggled

\* static void _do_feedhold(switch_t *s); env is cm and the count of
\* IndicatorLed.toggle() calls
_do_feedhold(r, env) ==
  LET toggled == [env EXCEPT !.toggles = env.toggles + 1] IN
  IF toggled.cm.cycle_state = CYCLE_HOMING
    THEN [toggled EXCEPT !.cm.request_feedhold = TRUE]
    ELSE IF HasBit(r.mode, SW_LIMIT_BIT)
      THEN [toggled EXCEPT !.cm.limit_flag = TRUE]
      ELSE toggled

\* static void _no_action(switch_t *s)
_no_action(r, env) == env

\* the call through one of the function pointers of a switch
CallFn(fn, r, env) ==
  IF fn = DO_FEEDHOLD THEN _do_feedhold(r, env) ELSE _no_action(r, env)

(* ---------------------------------------------------------- read_switch *)
\* mutant: the sample is inverted whatever the type
PinSenseCorrected_IgnoreType(pin_value, type) == Xor(pin_value, 1)

\* mutant: the type is not inverted before the exclusive or
PinSenseCorrected_NoInvert(pin_value, type) == Xor(pin_value, type)

\* pin_value ^ (s->type ^ 1)
PinSenseCorrected(pin_value, type) == Xor(pin_value, Xor(type, 1))

\* mutant: a lockout, once armed, never expires
InLockout_Sticky(r, now) == r.debounce_timeout # 0

\* mutant: the comparison with the tick is turned round
InLockout_Reversed(r, now) ==
  (r.debounce_timeout # 0) /\ (r.debounce_timeout < now)

\* mutant: the lockout still holds at the tick it expires
InLockout_Inclusive(r, now) ==
  (r.debounce_timeout # 0) /\ (r.debounce_timeout >= now)

\* (s->debounce_timeout != 0) && (s->debounce_timeout > GetTickCount())
InLockout(r, now) == (r.debounce_timeout # 0) /\ (r.debounce_timeout > now)

\* mutant: every transition is classified as a leading edge
EdgeOf_AlwaysLeading(state) == SW_LEADING

\* s->edge = ((s->state == SW_OPEN) ? SW_TRAILING : SW_LEADING)
EdgeOf(state) == IF state = SW_OPEN THEN SW_TRAILING ELSE SW_LEADING

\* mutant: the mode is not looked at
SwitchDisabled_Never(r) == FALSE

\* if (s->mode == SW_MODE_DISABLED) { return (false); }
SwitchDisabled(r) == r.mode = SW_MODE_DISABLED

\* mutant: both steady callbacks are guarded by the test for open
SteadyActions_BothOnOpen(r, env) ==
  LET e1 == IF r.state = SW_OPEN THEN CallFn(r.when_open, r, env) ELSE env
      e2 == IF r.state = SW_OPEN THEN CallFn(r.when_closed, r, e1) ELSE e1
      c1 == IF r.state = SW_OPEN THEN <<"when_open">> ELSE <<>>
      c2 == IF r.state = SW_OPEN THEN <<"when_closed">> ELSE <<>>
  IN [env |-> e2, calls |-> c1 \o c2]

\* the "process switch actions" of the no-change branch: the environment
\* after the calls and the callbacks invoked, in order
SteadyActions(r, env) ==
  LET e1 == IF r.state = SW_OPEN THEN CallFn(r.when_open, r, env) ELSE env
      e2 == IF r.state = SW_CLOSED THEN CallFn(r.when_closed, r, e1) ELSE e1
      c1 == IF r.state = SW_OPEN THEN <<"when_open">> ELSE <<>>
      c2 == IF r.state = SW_CLOSED THEN <<"when_closed">> ELSE <<>>
  IN [env |-> e2, calls |-> c1 \o c2]

\* mutant: only a leading edge arms the lockout
AcceptTransition_ArmOnLeading(r, pin_sense_corrected, now) ==
  LET r1 == [r EXCEPT !.state = pin_sense_corrected,
                      !.debounce_timeout =
                          IF pin_sense_corrected = SW_CLOSED
                            THEN (now + r.debounce_ticks) % TickModulus
                            ELSE 0]
  IN [r1 EXCEPT !.edge = EdgeOf(r1.state)]

\* mutant: the lockout quantum is not added to the tick
AcceptTransition_NoQuantum(r, pin_sense_corrected, now) ==
  LET r1 == [r EXCEPT !.state = pin_sense_corrected,
                      !.debounce_timeout = now]
  IN [r1 EXCEPT !.edge = EdgeOf(r1.state)]

\* "switch changed state": the record after the three assignments
AcceptTransition(r, pin_sense_corrected, now) ==
  LET r1 == [r EXCEPT !.state = pin_sense_corrected,
                      !.debounce_timeout =
                          (now + r.debounce_ticks) % TickModulus]
  IN [r1 EXCEPT !.edge = EdgeOf(r1.state)]

\* the "process edge switch actions" of the changed branch
EdgeActions(r, env) ==
  LET e1 == IF r.edge = SW_LEADING THEN CallFn(r.on_leading, r, env) ELSE env
      e2 == IF r.edge = SW_TRAILING THEN CallFn(r.on_trailing, r, e1) ELSE e1
      c1 == IF r.edge = SW_LEADING THEN <<"on_leading">> ELSE <<>>
      c2 == IF r.edge = SW_TRAILING THEN <<"on_trailing">> ELSE <<>>
  IN [env |-> e2, calls |-> c1 \o c2]

\* uint8_t read_switch(switch_t *s, uint8_t pin_value)
\* result: the record after the call, the environment after the callbacks,
\* the return value, the callbacks invoked, in order, and the value of the
\* local pin_sense_corrected (-1 when the call returns before computing it)
read_switch(r, pin_value, now, env) ==
  IF SwitchDisabled(r)
    THEN [s |-> r, env |-> env, ret |-> FALSE, calls |-> <<>>, sense |-> -1]
    ELSE
      LET pin_sense_corrected == PinSenseCorrected(pin_value, r.type) IN
      IF pin_sense_corrected = r.state
        THEN
          LET act == SteadyActions(r, env)
          IN [s |-> r, env |-> act.env, ret |-> FALSE, calls |-> act.calls,
              sense |-> pin_sense_corrected]
        ELSE IF InLockout(r, now)
          THEN [s |-> r, env |-> env, ret |-> FALSE, calls |-> <<>>,
                sense |-> pin_sense_corrected]
          ELSE
            LET r2 == AcceptTransition(r, pin_sense_corrected, now)
                act == EdgeActions(r2, env)
            IN [s |-> r2, env |-> act.env, ret |-> TRUE, calls |-> act.calls,
                sense |-> pin_sense_corrected]

(* ---------------------------------------------------------- switch_init *)
\* mutant: the initialisation leaves every switch closed
InitSwitch_StartsClosed(r, global_type) ==
  [r EXCEPT !.type = global_type,
            !.state = SW_CLOSED,
            !.edge = SW_NO_EDGE,
            !.debounce_ticks = SW_LOCKOUT_TICKS,
            !.debounce_timeout = 0,
            !.when_open = NO_ACTION,
            !.when_closed = NO_ACTION,
            !.on_leading = DO_FEEDHOLD,
            !.on_trailing = NO_ACTION]

\* mutant: the initialisation arms a lockout of one quantum
InitSwitch_ArmsLockout(r, global_type) ==
  [r EXCEPT !.type = global_type,
            !.state = 0,
            !.edge = SW_NO_EDGE,
            !.debounce_ticks = SW_LOCKOUT_TICKS,
            !.debounce_timeout = SW_LOCKOUT_TICKS,
            !.when_open = NO_ACTION,
            !.when_closed = NO_ACTION,
            !.on_leading = DO_FEEDHOLD,
            !.on_trailing = NO_ACTION]

\* mutant: a pending lockout survives the initialisation
InitSwitch_KeepsTimeout(r, global_type) ==
  [r EXCEPT !.type = global_type,
            !.state = 0,
            !.edge = SW_NO_EDGE,
            !.debounce_ticks = SW_LOCKOUT_TICKS,
            !.when_open = NO_ACTION,
            !.when_closed = NO_ACTION,
            !.on_leading = DO_FEEDHOLD,
            !.on_trailing = NO_ACTION]

\* mutant: the initialisation also disables the switch
InitSwitch_ResetsMode(r, global_type) ==
  [r EXCEPT !.type = global_type,
            !.mode = SW_MODE_DISABLED,
            !.state = 0,
            !.edge = SW_NO_EDGE,
            !.debounce_ticks = SW_LOCKOUT_TICKS,
            !.debounce_timeout = 0,
            !.when_open = NO_ACTION,
            !.when_closed = NO_ACTION,
            !.on_leading = DO_FEEDHOLD,
            !.on_trailing = NO_ACTION]

\* the body of the two nested loops of switch_init for one slot
InitSwitch(r, global_type) ==
  [r EXCEPT !.type = global_type,
            !.state = 0,
            !.edge = SW_NO_EDGE,
            !.debounce_ticks = SW_LOCKOUT_TICKS,
            !.debounce_timeout = 0,
            !.when_open = NO_ACTION,
            !.when_closed = NO_ACTION,
            !.on_leading = DO_FEEDHOLD,
            !.on_trailing = NO_ACTION]

\* void switch_init(void), as a function of the registry
switch_init(reg, global_type) ==
  [sl \in Slots |-> InitSwitch(reg[sl], global_type)]

(* -------------------------------------------------------- poll_switches *)
\* the state threaded through the twelve calls
PollStart(reg, env) ==
  [s |-> reg, env |-> env,
   rets |-> [sl \in Slots |-> FALSE],
   calls |-> [sl \in Slots |-> <<>>],
   sense |-> [sl \in Slots |-> -1],
   order |-> <<>>]

\* one read_switch(&sw.s[axis][position], pin) line of poll_switches
PollStep(acc, sl, pins, now) ==
  LET res == read_switch(acc.s[sl], pins[sl], now, acc.env) IN
  [s |-> [acc.s EXCEPT ![sl] = res.s],
   env |-> res.env,
   rets |-> [acc.rets EXCEPT ![sl] = res.ret],
   calls |-> [acc.calls EXCEPT ![sl] = acc.calls[sl] \o res.calls],
   sense |-> [acc.sense EXCEPT ![sl] = res.sense],
   order |-> Append(acc.order, sl)]

RECURSIVE PollFrom(_, _, _, _)
PollFrom(acc, i, pins, now) ==
  IF i > Len(PollOrder) THEN acc
  ELSE PollFrom(PollStep(acc, PollOrder[i], pins, now), i + 1, pins, now)

\* mutant: the cycle reports whether any switch changed state
poll_switches_AnyChange(reg, pins, now, env) ==
  LET out == PollFrom(PollStart(reg, env), 1, pins, now) IN
  [out |-> out, ret |-> \E sl \in Slots : out.rets[sl]]

\* uint8_t poll_switches(): the registry after the cycle and the value returned
poll_switches(reg, pins, now, env) ==
  [out |-> PollFrom(PollStart(reg, env), 1, pins, now), ret |-> FALSE]

(* ------------------------------------------------------- inputs, history *)
Pins == {0, 1}                       \* a pin reads 1 when open, 0 when closed

\* the slot the machine's configuration populates: the X axis minimum
\* switch.  The other eleven slots stay as switch_init leaves them.
Wired == {PollOrder[1]}

\* read_switch is called directly on the populated slots and on the last,
\* never populated, slot of the registry
ReadSlots == Wired \cup {PollOrder[Len(PollOrder)]}

\* the samples of one polling cycle: every wired pin is free, the pin of
\* an unpopulated slot has no contact to close it and reads 1
PinVectors ==
  {[sl \in Slots |-> IF sl \in Wired THEN w[sl] ELSE 1] : w \in [Wired -> Pins]}

NoPins == [sl \in Slots |-> -1]           \* -1: the slot was not sampled
NoRets == [sl \in Slots |-> FALSE]
NoCalls == [sl \in Slots |-> <<>>]

\* what the step just taken was: the operation, the samples it was given,
\* the value each read_switch returned, the callbacks invoked per slot, the
\* value of pin_sense_corrected per slot, the slots in the order read_switch
\* was called on them, the number of IndicatorLed.toggle() calls and the
\* value the operation returned
Op(name) ==
  [op |-> name, pins |-> NoPins, rets |-> NoRets, calls |-> NoCalls,
   sense |-> NoPins, order |-> <<>>, toggles |-> 0, ret |-> FALSE]

\* per slot, since the last switch_init: the ticks elapsed since the last
\* confirmed transition, counted up to the lockout quantum (-1: none yet),
\* and the last edge callback invoked
NoHist ==
  [since |-> [sl \in Slots |-> -1], lastcb |-> [sl \in Slots |-> "none"]]

\* the history after the read_switch calls of one step
HistAfter(h, rets, calls) ==
  [since |-> [sl \in Slots |-> IF rets[sl] THEN 0 ELSE h.since[sl]],
   lastcb |-> [sl \in Slots |->
                 IF rets[sl] /\ calls[sl] # <<>>
                   THEN calls[sl][Len(calls[sl])] ELSE h.lastcb[sl]]]

\* the history after one more tick
HistTick(h) ==
  [h EXCEPT !.since =
     [sl \in Slots |->
        IF h.since[sl] >= 0 /\ h.since[sl] < SW_LOCKOUT_TICKS
          THEN h.since[sl] + 1 ELSE h.since[sl]]]

Env == [cm |-> cm, toggles |-> 0]

\* switch_init has bound the callbacks of every slot
Initialized == \A sl \in Slots : s[sl].on_leading # NULL_FN

(* ------------------------------------------------------------------ Init *)
Init ==
  /\ sw_type = 0
  /\ s = [sl \in Slots |-> ZeroSwitch]
  /\ cm = [cycle_state |-> CYCLE_OFF, request_feedhold |-> FALSE,
           limit_flag |-> FALSE]
  /\ tick = 0
  /\ armed = [sl \in Slots |-> -1]
  /\ hist = NoHist
  /\ last = Op("boot")

(* --------------------------------------------------------------- actions *)
SwitchInit ==
  /\ s' = switch_init(s, sw_type)
  /\ armed' = [sl \in Slots |-> -1]
  /\ hist' = NoHist
  /\ last' = Op("switch_init")
  /\ UNCHANGED <<sw_type, cm, tick>>

ReadSwitch ==
  \E sl \in ReadSlots, pin_value \in Pins :
    LET res == read_switch(s[sl], pin_value, tick, Env) IN
    /\ s' = [s EXCEPT ![sl] = res.s]
    /\ cm' = res.env.cm
    /\ armed' = IF res.ret THEN [armed EXCEPT ![sl] = tick] ELSE armed
    /\ hist' = HistAfter(hist, [NoRets EXCEPT ![sl] = res.ret],
                         [NoCalls EXCEPT ![sl] = res.calls])
    /\ last' = [op |-> "read_switch",
                pins |-> [NoPins EXCEPT ![sl] = pin_value],
                rets |-> [NoRets EXCEPT ![sl] = res.ret],
                calls |-> [NoCalls EXCEPT ![sl] = res.calls],
                sense |-> [NoPins EXCEPT ![sl] = res.sense],
                order |-> <<sl>>,
                toggles |-> res.env.toggles,
                ret |-> res.ret]
    /\ UNCHANGED <<sw_type, tick>>

PollSwitches ==
  \E pins \in PinVectors :
    LET res == poll_switches(s, pins, tick, Env) IN
    /\ s' = res.out.s
    /\ cm' = res.out.env.cm
    /\ armed' = [sl \in Slots |->
                   IF res.out.rets[sl] THEN tick ELSE armed[sl]]
    /\ hist' = HistAfter(hist, res.out.rets, res.out.calls)
    /\ last' = [op |-> "poll_switches", pins |-> pins,
                rets |-> res.out.rets, calls |-> res.out.calls,
                sense |-> res.out.sense, order |-> res.out.order,
                toggles |-> res.out.env.toggles,
                ret |-> res.ret]
    /\ UNCHANGED <<sw_type, tick>>

\* the millisecond tick behind GetTickCount()
SysTick ==
  /\ tick < MaxTick
  /\ tick + 1 + SW_LOCKOUT_TICKS < TickModulus   \* no sum wraps
  /\ tick' = tick + 1
  /\ hist' = HistTick(hist)
  /\ last' = Op("env")
  /\ UNCHANGED <<sw_type, s, cm, armed>>

\* configuration writes the mode of a switch
ConfigMode ==
  \E sl \in Wired, m \in SwModes :
    /\ Initialized
    /\ s' = [s EXCEPT ![sl].mode = m]
    /\ last' = Op("env")
    /\ UNCHANGED <<sw_type, cm, tick, armed, hist>>

\* configuration overrides the wiring type of a switch
ConfigType ==
  \E sl \in Wired, t \in {SW_TYPE_NORMALLY_OPEN, SW_TYPE_NORMALLY_CLOSED} :
    /\ Initialized
    /\ s' = [s EXCEPT ![sl].type = t]
    /\ last' = Op("env")
    /\ UNCHANGED <<sw_type, cm, tick, armed, hist>>

\* configuration writes the global type sw.type
ConfigGlobalType ==
  \E t \in {SW_TYPE_NORMALLY_OPEN, SW_TYPE_NORMALLY_CLOSED} :
    /\ sw_type' = t
    /\ last' = Op("env")
    /\ UNCHANGED <<s, cm, tick, armed, hist>>

\* the canonical machine enters or leaves the homing cycle
SetCycleState ==
  \E c \in CycleStates :
    /\ cm' = [cm EXCEPT !.cycle_state = c]
    /\ last' = Op("env")
    /\ UNCHANGED <<sw_type, s, tick, armed, hist>>

\* the canonical machine consumes the requests
ClearRequests ==
  /\ cm' = [cm EXCEPT !.request_feedhold = FALSE, !.limit_flag = FALSE]
  /\ last' = Op("env")
  /\ UNCHANGED <<sw_type, s, tick, armed, hist>>

Next ==
  \/ SwitchInit
  \/ ReadSwitch
  \/ PollSwitches
  \/ SysTick
  \/ ConfigMode
  \/ ConfigType
  \/ ConfigGlobalType
  \/ SetCycleState
  \/ ClearRequests

Spec == Init /\ [][Next]_vars

\* the scheduler keeps calling poll_switches and the tick keeps counting;
\* poll_switches has no guard, so its weak fairness is []<><<PollSwitches>>_vars
SpecLive == Spec /\ []<><<PollSwitches>>_vars /\ WF_vars(SysTick)

(* ------------------------------------------- the tick counter wrapping *)
\* the tick counter running through its whole range and wrapping to 0
SysTickWrap ==
  /\ tick' = (tick + 1) % TickModulus
  /\ hist' = HistTick(hist)
  /\ last' = Op("env")
  /\ UNCHANGED <<sw_type, s, cm, armed>>

NextWrap ==
  \/ SwitchInit
  \/ ReadSwitch
  \/ PollSwitches
  \/ SysTickWrap
  \/ ConfigMode

SpecWrap == Init /\ [][NextWrap]_vars

TypeOK ==
  /\ sw_type \in {0, 1}
  /\ tick \in 0 .. MaxTick
  /\ \A sl \in Slots : s[sl].state \in {SW_OPEN, SW_CLOSED}

(* ========================================================== properties *)
\* the step just taken was a call into switch.cpp that samples pins
Polled(l) == l.op \in {"read_switch", "poll_switches"}

\* read_switch was called on slot sl in the step recorded by l
Sampled(l, sl) == l.pins[sl] \in Pins

EdgeCallbacks == {"on_leading", "on_trailing"}
SteadyCallbacks == {"when_open", "when_closed"}

\* the callbacks of the given kind among those invoked for slot sl
Invoked(l, sl, kind) == {i \in 1 .. Len(l.calls[sl]) : l.calls[sl][i] \in kind}

CoreOps == {"switch_init", "read_switch", "poll_switches"}

\* the logical value the polarity table gives a raw sample
PolarityTable(type, pin_value) ==
  IF type = SW_TYPE_NORMALLY_OPEN
    THEN (IF pin_value = 0 THEN SW_CLOSED ELSE SW_OPEN)
    ELSE (IF pin_value = 0 THEN SW_OPEN ELSE SW_CLOSED)

\* the mode of the switch enables it
Enabled(r) == r.mode # SW_MODE_DISABLED

(* ------------------------------------------------------------------ C1 *)
\* C1 (debounce suppression): an enabled switch is closed by a transition
\* confirmed at tick T = armed[sl] with lockout D.  A read_switch call at a
\* tick below T + D whose sample implies open leaves it closed and invokes
\* no trailing-edge callback; a call at a tick >= T + D whose sample implies
\* open opens it and invokes on_trailing.
C1_DebounceSuppression ==
  [][\A sl \in Slots :
       ( /\ Polled(last') /\ Sampled(last', sl)
         /\ Enabled(s[sl])
         /\ s[sl].state = SW_CLOSED /\ armed[sl] >= 0
         /\ PolarityTable(s[sl].type, last'.pins[sl]) = SW_OPEN )
       => IF tick < armed[sl] + s[sl].debounce_ticks
            THEN /\ s'[sl].state = SW_CLOSED
                 /\ Invoked(last', sl, {"on_trailing"}) = {}
            ELSE /\ s'[sl].state = SW_OPEN
                 /\ last'.calls[sl] = <<"on_trailing">>
    ]_vars

\* an opening sample inside the lockout window of a closure was ignored
C1_Witness ==
  \E sl \in Wired :
    /\ Polled(last) /\ Sampled(last, sl)
    /\ Enabled(s[sl])
    /\ s[sl].state = SW_CLOSED /\ s[sl].edge = SW_LEADING
    /\ armed[sl] >= 0 /\ armed[sl] < tick
    /\ tick < armed[sl] + s[sl].debounce_ticks
    /\ PolarityTable(s[sl].type, last.pins[sl]) = SW_OPEN
    /\ last.rets[sl] = FALSE /\ last.calls[sl] = <<>>

(* ------------------------------------------------------------------ C2 *)
\* the slots whose leading-edge callback ran in the step recorded by l
LeadingSlots(l) == {sl \in Slots : Invoked(l, sl, {"on_leading"}) # {}}

\* C2 (escalation): when one confirmed leading edge runs the default
\* leading-edge action, then while homing the feedhold request is set
\* whatever the limit bit of the switch and the limit flag is not written;
\* while not homing the limit flag is set if the mode has the limit bit and
\* neither flag is written if it has not.
C2_Escalation ==
  [][\A sl \in Slots :
       ( /\ Polled(last') /\ LeadingSlots(last') = {sl}
         /\ s[sl].on_leading = DO_FEEDHOLD )
       => IF cm.cycle_state = CYCLE_HOMING
            THEN /\ cm'.request_feedhold = TRUE
                 /\ cm'.limit_flag = cm.limit_flag
            ELSE IF SW_LIMIT_BIT \in s[sl].mode
              THEN /\ cm'.limit_flag = TRUE
                   /\ cm'.request_feedhold = cm.request_feedhold
              ELSE cm' = cm
    ]_vars

\* a limit-only switch closed during homing: feedhold requested, no limit
C2_Witness ==
  \E sl \in Wired :
    /\ Polled(last) /\ LeadingSlots(last) = {sl}
    /\ s[sl].mode = {SW_LIMIT_BIT}
    /\ cm.cycle_state = CYCLE_HOMING
    /\ cm.request_feedhold = TRUE /\ cm.limit_flag = FALSE

(* ------------------------------------------------------------------ C3 *)
\* C3 (disabled is inert): a read_switch or poll_switches call leaves the
\* logical state, the edge and the lockout of every disabled switch as they
\* were, invokes none of its callbacks and returns false for it.
C3_DisabledInert ==
  [][Polled(last') =>
       \A sl \in Slots :
         s[sl].mode = SW_MODE_DISABLED =>
           /\ s'[sl].state = s[sl].state
           /\ s'[sl].edge = s[sl].edge
           /\ s'[sl].debounce_timeout = s[sl].debounce_timeout
           /\ last'.calls[sl] = <<>>
           /\ (Sampled(last', sl) => last'.rets[sl] = FALSE)
    ]_vars

\* a disabled switch, closed when it was disabled, was sampled open after
\* its lockout expired and stayed closed
C3_Witness ==
  \E sl \in Wired :
    /\ Polled(last) /\ Sampled(last, sl)
    /\ s[sl].mode = SW_MODE_DISABLED
    /\ s[sl].state = SW_CLOSED
    /\ s[sl].debounce_timeout # 0 /\ s[sl].debounce_timeout <= tick
    /\ last.pins[sl] = 1 /\ s[sl].type = SW_TYPE_NORMALLY_OPEN
    /\ last.rets[sl] = FALSE /\ last.calls[sl] = <<>>

(* ------------------------------------------------------------------ C4 *)
\* C4 (polarity): read_switch treats a raw 0 on a normally-open switch and
\* a raw 1 on a normally-closed switch as closed, a raw 1 on a normally-open
\* and a raw 0 on a normally-closed switch as open: the sample counts as "no
\* change" exactly when the table value equals the logical state, and a
\* confirmed transition sets the logical state to the table value.
C4_Polarity ==
  [][\A sl \in Slots :
       ( /\ Polled(last') /\ Sampled(last', sl) /\ Enabled(s[sl]) )
       => LET v == PolarityTable(s[sl].type, last'.pins[sl]) IN
          /\ PolarityTable(SW_TYPE_NORMALLY_OPEN, last'.pins[sl])
               # PolarityTable(SW_TYPE_NORMALLY_CLOSED, last'.pins[sl])
          /\ (v = s[sl].state) <=> (Invoked(last', sl, SteadyCallbacks) # {})
          /\ (v = s[sl].state) => s'[sl].state = s[sl].state
          /\ last'.rets[sl] = TRUE => (v # s[sl].state /\ s'[sl].state = v)
          /\ (v # s[sl].state /\ s[sl].debounce_timeout <= tick) => s'[sl].state = v
    ]_vars

\* a raw 1 closed a normally-closed switch
C4_Witness ==
  \E sl \in Wired :
    /\ Polled(last) /\ Sampled(last, sl)
    /\ s[sl].type = SW_TYPE_NORMALLY_CLOSED
    /\ last.pins[sl] = 1
    /\ last.rets[sl] = TRUE
    /\ s[sl].state = SW_CLOSED

(* ------------------------------------------------------------------ C5 *)
\* C5 (edge callback exactly once): a read_switch call confirms a
\* transition exactly when it changes the logical state; such a call invokes
\* on_leading once and nothing else when the new state is closed, and
\* on_trailing once and nothing else when it is open; a call that confirms
\* no transition invokes no edge callback, whatever edge the record holds.
C5_EdgeExactlyOnce ==
  [][\A sl \in Slots :
       (Polled(last') /\ Sampled(last', sl))
       => /\ last'.rets[sl] <=> (s'[sl].state # s[sl].state)
          /\ last'.rets[sl] =>
               last'.calls[sl] = IF s'[sl].state = SW_CLOSED
                                   THEN <<"on_leading">>
                                   ELSE <<"on_trailing">>
          /\ ~last'.rets[sl] => Invoked(last', sl, EdgeCallbacks) = {}
    ]_vars

\* a trailing edge was confirmed and dispatched to on_trailing alone
C5_Witness ==
  \E sl \in Wired :
    /\ Polled(last) /\ Sampled(last, sl)
    /\ last.rets[sl]
    /\ s[sl].state = SW_OPEN /\ s[sl].edge = SW_TRAILING
    /\ last.calls[sl] = <<"on_trailing">>

(* ------------------------------------------------------------------ C6 *)
\* C6 (steady-state callback): a read_switch call on an enabled switch
\* whose corrected sample equals its logical state invokes when_open alone
\* if the switch is open and when_closed alone if it is closed, leaves the
\* logical state, the edge and the lockout as they were and returns false.
C6_SteadyCallback ==
  [][\A sl \in Slots :
       ( /\ Polled(last') /\ Sampled(last', sl)
         /\ Enabled(s[sl])
         /\ PolarityTable(s[sl].type, last'.pins[sl]) = s[sl].state )
       => /\ last'.calls[sl] = IF s[sl].state = SW_OPEN
                                 THEN <<"when_open">>
                                 ELSE <<"when_closed">>
          /\ s'[sl].state = s[sl].state
          /\ s'[sl].edge = s[sl].edge
          /\ s'[sl].debounce_timeout = s[sl].debounce_timeout
          /\ last'.rets[sl] = FALSE
    ]_vars

\* a closed switch, its leading edge behind it, was sampled closed again
C6_Witness ==
  \E sl \in Wired :
    /\ Polled(last) /\ Sampled(last, sl)
    /\ Enabled(s[sl])
    /\ s[sl].state = SW_CLOSED /\ s[sl].edge = SW_LEADING
    /\ PolarityTable(s[sl].type, last.pins[sl]) = SW_CLOSED
    /\ last.calls[sl] = <<"when_closed">>
    /\ last.rets[sl] = FALSE

(* ------------------------------------------------------------------ C7 *)
\* C7 (flags are set-only): no switch_init, read_switch or poll_switches
\* call turns a set feedhold request or a set limit flag back to false.
C7_FlagsSetOnly ==
  [][last'.op \in CoreOps =>
       /\ cm.request_feedhold => cm'.request_feedhold
       /\ cm.limit_flag => cm'.limit_flag
    ]_vars

\* the escalation action ran while homing with the limit flag already set
C7_Witness ==
  /\ Polled(last) /\ last.toggles > 0
  /\ cm.cycle_state = CYCLE_HOMING
  /\ cm.request_feedhold /\ cm.limit_flag

(* ------------------------------------------------------------------ C8 *)
\* C8 (aggregate return): poll_switches returns false on every call, also
\* when a switch had a confirmed transition during the call.
C8_PollReturnsFalse ==
  last.op = "poll_switches" => last.ret = FALSE

\* a polling cycle in which a switch changed state and ran its edge callback
C8_Witness ==
  /\ last.op = "poll_switches"
  /\ \E sl \in Wired : last.rets[sl] /\ Invoked(last, sl, EdgeCallbacks) # {}

(* ------------------------------------------------------------------ C9 *)
\* C9 (initialisation): after switch_init every slot has the global type,
\* state open, no edge, the default lockout quantum, no lockout pending, the
\* steady callbacks and on_trailing bound to _no_action and on_leading bound
\* to _do_feedhold; and a second switch_init changes nothing.
C9_InitDefaults ==
  last.op = "switch_init" =>
    /\ \A sl \in Slots :
         /\ s[sl].type = sw_type
         /\ s[sl].state = SW_OPEN
         /\ s[sl].edge = SW_NO_EDGE
         /\ s[sl].debounce_ticks = SW_LOCKOUT_TICKS
         /\ s[sl].debounce_timeout = 0
         /\ s[sl].when_open = NO_ACTION
         /\ s[sl].when_closed = NO_ACTION
         /\ s[sl].on_leading = DO_FEEDHOLD
         /\ s[sl].on_trailing = NO_ACTION
    /\ switch_init(s, sw_type) = s

\* switch_init ran with the global type configured normally-closed
C9_Witness ==
  /\ last.op = "switch_init"
  /\ sw_type = SW_TYPE_NORMALLY_CLOSED
  /\ \A sl \in Slots : s[sl].type = SW_TYPE_NORMALLY_CLOSED

(* ----------------------------------------------------------------- C10 *)
\* C10 as stated: after switch_init every slot has the global type and
\* mode disabled.
C10_ReinitDisablesAll ==
  last.op = "switch_init" =>
    \A sl \in Slots :
      s[sl].type = sw_type /\ s[sl].mode = SW_MODE_DISABLED

\* C10 (amended): switch_init puts the type of every slot back at the global
\* type and leaves every mode as it was; in a polling cycle issued right
\* after it only the disabled slots are inert, every enabled slot has exactly
\* one callback invoked (a steady-state callback, or on_leading for a sample
\* that implies closed).
C10_ReinitKeepsMode ==
  [][/\ last'.op = "switch_init" =>
          \A sl \in Slots :
            s'[sl].type = sw_type /\ s'[sl].mode = s[sl].mode
     /\ (last.op = "switch_init" /\ last'.op = "poll_switches") =>
          \A sl \in Slots :
            IF s[sl].mode = SW_MODE_DISABLED
              THEN s'[sl] = s[sl] /\ last'.calls[sl] = <<>>
              ELSE last'.calls[sl] =
                     IF PolarityTable(s[sl].type, last'.pins[sl]) = SW_OPEN
                       THEN <<"when_open">> ELSE <<"on_leading">>
    ]_vars

\* a switch still enabled after a repeated switch_init, its type override
\* replaced by the global type
C10_Witness ==
  /\ last.op = "switch_init"
  /\ \E sl \in Wired :
       /\ s[sl].mode = {SW_HOMING_BIT, SW_LIMIT_BIT}
       /\ s[sl].type = sw_type
       /\ s[sl].state = SW_OPEN /\ s[sl].debounce_timeout = 0

(* ----------------------------------------------------------------- C11 *)
\* C11 as stated: the value read_switch compares with the logical state is
\* the sample XOR 1 for a normally-closed switch and the sample itself for
\* a normally-open switch.
C11_XorNormallyClosed ==
  \A sl \in Slots :
    (Polled(last) /\ Sampled(last, sl) /\ Enabled(s[sl]))
    => last.sense[sl] =
         Xor(last.pins[sl],
             IF s[sl].type = SW_TYPE_NORMALLY_CLOSED THEN 1 ELSE 0)

\* C11 (amended): the value read_switch compares with the logical state is
\* the sample XOR 1 for a normally-open switch and the sample itself for a
\* normally-closed switch, for both samples; 0 stands for open and 1 for
\* closed: a confirmed transition stores the value as the logical state.
C11_XorNormallyOpen ==
  \A sl \in Slots :
    (Polled(last) /\ Sampled(last, sl) /\ Enabled(s[sl]))
    => /\ last.sense[sl] =
            Xor(last.pins[sl],
                IF s[sl].type = SW_TYPE_NORMALLY_OPEN THEN 1 ELSE 0)
       /\ last.sense[sl] \in {SW_OPEN, SW_CLOSED}
       /\ last.rets[sl] => s[sl].state = last.sense[sl]

\* a raw 0 on a normally-open switch was corrected to 1 and closed it
C11_Witness ==
  \E sl \in Wired :
    /\ Polled(last) /\ Sampled(last, sl) /\ Enabled(s[sl])
    /\ s[sl].type = SW_TYPE_NORMALLY_OPEN
    /\ last.pins[sl] = 0 /\ last.sense[sl] = 1
    /\ last.rets[sl] /\ s[sl].state = SW_CLOSED

(* ----------------------------------------------------------------- C12 *)
\* C12 as stated: a non-zero lockout_until lies in [A, A + lockout_duration)
\* for the tick A of the last confirmed transition.
C12_LockoutBelowSum ==
  \A sl \in Slots :
    s[sl].debounce_timeout # 0 =>
      /\ armed[sl] <= s[sl].debounce_timeout
      /\ s[sl].debounce_timeout < armed[sl] + s[sl].debounce_ticks

\* C12 (amended): a non-zero lockout_until was armed by a confirmed
\* transition and equals A + lockout_duration in the arithmetic of the tick
\* counter, for the tick A of the last confirmed transition.
C12_LockoutIsSum ==
  \A sl \in Slots :
    s[sl].debounce_timeout # 0 =>
      /\ armed[sl] >= 0
      /\ s[sl].debounce_timeout =
           (armed[sl] + s[sl].debounce_ticks) % TickModulus

\* a lockout armed at a tick above 0 and since expired
C12_Witness ==
  \E sl \in Wired :
    /\ armed[sl] > 0
    /\ s[sl].debounce_timeout = armed[sl] + s[sl].debounce_ticks
    /\ s[sl].debounce_timeout < tick

(* ----------------------------------------------------------------- C13 *)
\* C13 (suppression is silent): a read_switch call on an enabled switch
\* whose sample differs from the logical state while lockout_until is
\* non-zero and above the tick returns false, leaves the logical state, the
\* edge and lockout_until as they were and invokes no callback of the
\* switch; a single such call leaves both escalation flags and the
\* indicator alone.
C13_SuppressionSilent ==
  [][\A sl \in Slots :
       ( /\ Polled(last') /\ Sampled(last', sl) /\ Enabled(s[sl])
         /\ PolarityTable(s[sl].type, last'.pins[sl]) # s[sl].state
         /\ s[sl].debounce_timeout # 0 /\ s[sl].debounce_timeout > tick )
       => /\ last'.rets[sl] = FALSE
          /\ s'[sl].state = s[sl].state
          /\ s'[sl].edge = s[sl].edge
          /\ s'[sl].debounce_timeout = s[sl].debounce_timeout
          /\ last'.calls[sl] = <<>>
          /\ last'.op = "read_switch" =>
               (cm' = cm /\ last'.toggles = 0 /\ last'.ret = FALSE)
    ]_vars

\* a single read_switch call absorbed a candidate inside the lockout
C13_Witness ==
  \E sl \in Wired :
    /\ last.op = "read_switch" /\ Sampled(last, sl) /\ Enabled(s[sl])
    /\ PolarityTable(s[sl].type, last.pins[sl]) # s[sl].state
    /\ s[sl].debounce_timeout > tick
    /\ last.ret = FALSE /\ last.calls[sl] = <<>> /\ last.toggles = 0

(* ----------------------------------------------------------------- C14 *)
\* C14 as stated: the escalation action writes neither flag when the cycle
\* state is homing and the mode lacks the homing bit, nor when the cycle
\* state is not homing and the mode lacks the limit bit.
C14_NoFlagWithoutBit ==
  [][\A sl \in Slots :
       ( /\ Polled(last') /\ LeadingSlots(last') = {sl}
         /\ s[sl].on_leading = DO_FEEDHOLD
         /\ \/ cm.cycle_state = CYCLE_HOMING /\ SW_HOMING_BIT \notin s[sl].mode
            \/ cm.cycle_state # CYCLE_HOMING /\ SW_LIMIT_BIT \notin s[sl].mode )
       => (cm' = cm /\ last'.toggles = 1)
    ]_vars

\* C14 (amended): the escalation action toggles the indicator once; it
\* writes neither flag when the cycle state is not homing and the mode lacks
\* the limit bit; when the cycle state is homing it sets the feedhold
\* request also for a mode that lacks the homing bit, and leaves the limit
\* flag alone.
C14_NoFlagWithoutLimitBit ==
  [][\A sl \in Slots :
       ( /\ Polled(last') /\ LeadingSlots(last') = {sl}
         /\ s[sl].on_leading = DO_FEEDHOLD )
       => /\ last'.toggles = 1
          /\ (cm.cycle_state # CYCLE_HOMING /\ SW_LIMIT_BIT \notin s[sl].mode)
               => cm' = cm
          /\ (cm.cycle_state = CYCLE_HOMING /\ SW_HOMING_BIT \notin s[sl].mode)
               => /\ cm'.request_feedhold = TRUE
                  /\ cm'.limit_flag = cm.limit_flag
    ]_vars

\* a homing-only switch closed outside homing: the indicator toggled and
\* neither flag was set
C14_Witness ==
  \E sl \in Wired :
    /\ Polled(last) /\ LeadingSlots(last) = {sl}
    /\ s[sl].mode = {SW_HOMING_BIT}
    /\ cm.cycle_state = CYCLE_OFF
    /\ last.toggles = 1
    /\ ~cm.request_feedhold /\ ~cm.limit_flag

(* ----------------------------------------------------------------- C15 *)
\* C15 (a trailing edge arms the lockout): an enabled switch is open by a
\* transition confirmed at tick T = armed[sl] with lockout D.  A read_switch
\* call at a tick below T + D whose sample implies closed leaves it open and
\* invokes no callback, so a single such call writes no flag; a call at a
\* tick >= T + D whose sample implies closed closes it and invokes
\* on_leading.
C15_TrailingArmsLockout ==
  [][\A sl \in Slots :
       ( /\ Polled(last') /\ Sampled(last', sl) /\ Enabled(s[sl])
         /\ s[sl].state = SW_OPEN /\ armed[sl] >= 0
         /\ hist.lastcb[sl] = "on_trailing"
         /\ PolarityTable(s[sl].type, last'.pins[sl]) = SW_CLOSED )
       => IF tick < armed[sl] + s[sl].debounce_ticks
            THEN /\ s'[sl].state = SW_OPEN
                 /\ last'.calls[sl] = <<>>
                 /\ last'.op = "read_switch" => cm' = cm
            ELSE /\ s'[sl].state = SW_CLOSED
                 /\ last'.calls[sl] = <<"on_leading">>
    ]_vars

\* a closing sample inside the lockout window of an opening was ignored
C15_Witness ==
  \E sl \in Wired :
    /\ Polled(last) /\ Sampled(last, sl) /\ Enabled(s[sl])
    /\ s[sl].state = SW_OPEN /\ s[sl].edge = SW_TRAILING
    /\ hist.lastcb[sl] = "on_trailing"
    /\ armed[sl] >= 0 /\ tick < armed[sl] + s[sl].debounce_ticks
    /\ PolarityTable(s[sl].type, last.pins[sl]) = SW_CLOSED
    /\ last.rets[sl] = FALSE /\ last.calls[sl] = <<>>

(* ----------------------------------------------------------------- C16 *)
\* the slots by axis X, Y, Z, A, B, C and, within an axis, minimum first
AxisMajorOrder ==
  [i \in 1 .. SW_PAIRS * SW_POSITIONS |->
     <<(i - 1) \div SW_POSITIONS, (i - 1) % SW_POSITIONS>>]

\* C16 (one call per slot, in order): a poll_switches call calls read_switch
\* once on every slot, by axis X, Y, Z, A, B, C and minimum before maximum;
\* per slot it confirms at most one transition and invokes at most one
\* callback, so at most one edge callback.
C16_PollOrder ==
  last.op = "poll_switches" =>
    /\ last.order = AxisMajorOrder
    /\ \A sl \in Slots :
         /\ Cardinality({i \in 1 .. Len(last.order) : last.order[i] = sl}) = 1
         /\ Sampled(last, sl)
         /\ Len(last.calls[sl]) <= 1
         /\ Cardinality(Invoked(last, sl, EdgeCallbacks)) <= 1

\* a polling cycle over the twelve slots in which the X minimum switch closed
C16_Witness ==
  /\ last.op = "poll_switches"
  /\ Len(last.order) = 12
  /\ \E sl \in Wired :
       /\ last.rets[sl] /\ s[sl].state = SW_CLOSED
       /\ last.calls[sl] = <<"on_leading">>

(* ----------------------------------------------------------------- C17 *)
\* C17 (wrapping tick counter): with the tick and the sum tick + lockout
\* computed modulo 2^TickBits, a candidate transition on an enabled switch
\* is suppressed if and only if fewer than debounce_ticks ticks have elapsed
\* since the switch's last confirmed transition (hist.since counts them).
C17_SuppressedIffInsideWindow ==
  [][\A sl \in Slots :
       ( /\ Polled(last') /\ Sampled(last', sl) /\ Enabled(s[sl])
         /\ PolarityTable(s[sl].type, last'.pins[sl]) # s[sl].state )
       => ( (last'.rets[sl] = FALSE /\ s'[sl].state = s[sl].state)
            <=> (hist.since[sl] >= 0 /\ hist.since[sl] < s[sl].debounce_ticks) )
    ]_vars

(* ----------------------------------------------------------------- C18 *)
\* C18 (edges alternate): for each switch, after switch_init, an on_leading
\* call is the first edge callback or follows an on_trailing call, and an
\* on_trailing call follows an on_leading call (hist.lastcb is the last edge
\* callback of the switch since switch_init); one call of read_switch
\* invokes at most one of them.
C18_EdgesAlternate ==
  [][\A sl \in Slots :
       (Polled(last') /\ Initialized) =>
         /\ Cardinality(Invoked(last', sl, EdgeCallbacks)) <= 1
         /\ Invoked(last', sl, {"on_leading"}) # {}
              => hist.lastcb[sl] \in {"none", "on_trailing"}
         /\ Invoked(last', sl, {"on_trailing"}) # {}
              => hist.lastcb[sl] = "on_leading"
         /\ Invoked(last', sl, EdgeCallbacks) # {}
              => hist'.lastcb[sl] = last'.calls[sl][1]
    ]_vars

\* a trailing edge was reported, after the leading edge before it
C18_Witness ==
  \E sl \in Wired :
    /\ Polled(last) /\ last.rets[sl]
    /\ last.calls[sl] = <<"on_trailing">>
    /\ hist.lastcb[sl] = "on_trailing"
    /\ s[sl].state = SW_OPEN /\ s[sl].edge = SW_TRAILING

(* ----------------------------------------------------------------- C19 *)
\* C19 (first closing after switch_init): an enabled switch with no
\* confirmed transition since switch_init whose corrected sample is closed
\* is closed by that read_switch call at any tick, on_leading is invoked,
\* and with the default binding the feedhold request is set while homing and
\* the limit flag is set while not homing if the mode has the limit bit.
C19_FirstCandidateAccepted ==
  [][\A sl \in Slots :
       ( /\ Polled(last') /\ Sampled(last', sl) /\ Enabled(s[sl])
         /\ Initialized /\ hist.lastcb[sl] = "none"
         /\ PolarityTable(s[sl].type, last'.pins[sl]) = SW_CLOSED )
       => /\ s'[sl].state = SW_CLOSED
          /\ last'.rets[sl] = TRUE
          /\ last'.calls[sl] = <<"on_leading">>
          /\ s[sl].on_leading = DO_FEEDHOLD
          /\ cm.cycle_state = CYCLE_HOMING => cm'.request_feedhold = TRUE
          /\ (cm.cycle_state # CYCLE_HOMING /\ SW_LIMIT_BIT \in s[sl].mode)
               => cm'.limit_flag = TRUE
    ]_vars

\* the first closing since switch_init was confirmed at a tick past zero and
\* raised the limit flag
C19_Witness ==
  \E sl \in Wired :
    /\ Polled(last) /\ last.rets[sl]
    /\ last.calls[sl] = <<"on_leading">>
    /\ s[sl].state = SW_CLOSED
    /\ tick > 0 /\ armed[sl] = tick
    /\ tick < s[sl].debounce_ticks
    /\ cm.cycle_state # CYCLE_HOMING /\ SW_LIMIT_BIT \in s[sl].mode
    /\ cm.limit_flag

(* ----------------------------------------------------------------- C20 *)
\* the last call sampled slot sl with a candidate transition and ignored it
Pending(sl) ==
  /\ Polled(last) /\ Sampled(last, sl) /\ Enabled(s[sl])
  /\ ~last.rets[sl]
  /\ PolarityTable(s[sl].type, last.pins[sl]) # s[sl].state

\* the last call confirmed a transition of slot sl and invoked its callback
Confirmed(sl) ==
  /\ Polled(last) /\ Sampled(last, sl) /\ last.rets[sl]
  /\ PolarityTable(s[sl].type, last.pins[sl]) = s[sl].state
  /\ last.calls[sl] =
       << IF s[sl].state = SW_CLOSED THEN "on_leading" ELSE "on_trailing" >>

\* the last call found the sample of slot sl back at its logical state
Withdrawn(sl) ==
  /\ Polled(last) /\ Sampled(last, sl) /\ Enabled(s[sl])
  /\ ~last.rets[sl]
  /\ PolarityTable(s[sl].type, last.pins[sl]) = s[sl].state

\* the bounded tick counter can reach the value v
TickReaches(v) == v <= MaxTick /\ v + SW_LOCKOUT_TICKS < TickModulus

\* C20 (liveness): while the switch stays enabled and polled and the tick
\* advances to debounce_timeout without wrapping, a candidate transition
\* that was ignored is eventually confirmed with its edge callback, unless a
\* later sample is back at the logical state; a call at a tick at or past
\* debounce_timeout confirms a candidate at once, and a call inside the
\* lockout leaves the state alone and invokes no edge callback.
C20_EventuallyConfirmed ==
  /\ \A sl \in Wired :
       (Pending(sl) /\ TickReaches(s[sl].debounce_timeout))
         ~> (Confirmed(sl) \/ Withdrawn(sl) \/ ~Enabled(s[sl]))
  /\ [][\A sl \in Slots :
          ( /\ Polled(last') /\ Sampled(last', sl) /\ Enabled(s[sl])
            /\ PolarityTable(s[sl].type, last'.pins[sl]) # s[sl].state )
          => IF tick >= s[sl].debounce_timeout
               THEN Confirmed(sl)'
               ELSE /\ s'[sl].state = s[sl].state
                    /\ Invoked(last', sl, EdgeCallbacks) = {}
                    /\ Pending(sl)'
       ]_vars

\* an opening that had been ignored inside the lockout was confirmed by the
\* first call after the lockout expired
C20_Witness ==
  \E sl \in Wired :
    /\ Confirmed(sl)
    /\ s[sl].state = SW_OPEN /\ s[sl].edge = SW_TRAILING
    /\ armed[sl] = tick /\ hist.since[sl] = 0
    /\ tick >= s[sl].debounce_ticks

====
